---- MODULE Spec2Model ----
(***************************************************************************)
(* The appointment store (src/src/db.py) and the two scheduling tools that *)
(* reach it (src/src/agent.py), as a state machine.                        *)
(*                                                                         *)
(* Text that is only compared for equality is a TLA+ string.  scheduled_at *)
(* and created_at are compared with > by the storage engine, so they are   *)
(* sequences of digits, compared the way the engine compares TEXT.         *)
(***************************************************************************)
EXTENDS Integers, Sequences, FiniteSets, TLC

(* ------------------------------ bounds -------------------------------- *)

\* At most this many rows are stored.
MaxRows == 2

\* The storage engine's clock runs from 0 to MaxClock.
MaxClock == 1

(* ------------------------------ inputs -------------------------------- *)

\* Two names that differ only in case: patient_name is matched exactly.
PatientNames == {"John Doe", "john doe"}

DoctorNames == {"Dr. Smith", "Dr. Brown"}

\* scheduled_at as the caller passes it: "00" is zero padded, "1" is not.
ScheduledAts == {<<0, 0>>, <<1>>}

\* The (doctor_name, scheduled_at) pairs callers ask to book: two times with
\* one doctor, and one of those times with the other doctor as well.
Slots == {<<"Dr. Smith", <<0, 0>>>>, <<"Dr. Smith", <<1>>>>, <<"Dr. Brown", <<0, 0>>>>}

Summaries == {"checkup"}

\* Where the storage engine fails during one call ("none": nowhere).
InitFaults == {"none", "mkdir", "connect", "script"}
CheckFaults == {"none", "connect", "query"}
InsertFaults == {"none", "connect", "check_connect", "check_query", "insert", "commit"}
SelectFaults == {"none", "connect", "query"}

(* --------------------------- Python values ---------------------------- *)

PyNone == [type |-> "NoneType"]

PyInt(n) == [type |-> "int", v |-> n]

PyStr(s) == [type |-> "str", v |-> s]

PyBool(b) == [type |-> "bool", v |-> b]

PyList(s) == [type |-> "list", v |-> s]

\* A fetched row: a tuple of the column values, in column order.
PyTuple(row) == [type |-> "tuple", v |-> row]

\* An f-string, as the sequence of its literal and formatted parts.
FString(parts) == [type |-> "str", parts |-> parts]

\* ValueError(...) of insert_appointment: the scheduling conflict.
ConflictError == [type |-> "ValueError",
                  msg |-> "Conflicting appointment found, ask the user to schedule a different time."]

\* The text the storage engine gives for a failure at a step.
EngineText(step) ==
    CASE step = "connect" -> "unable to open database file"
      [] step = "query"   -> "no such table: appointments"
      [] step = "script"  -> "disk I/O error"
      [] step = "insert"  -> "database is locked"
      [] step = "commit"  -> "database or disk is full"

\* sqlite3.OperationalError, a subclass of sqlite3.Error.
EngineError(step) == [type |-> "sqlite3.OperationalError", msg |-> EngineText(step)]

\* sqlite3.IntegrityError, raised when a constraint of the schema refuses a row.
IntegrityError == [type |-> "sqlite3.IntegrityError", msg |-> "constraint failed"]

\* OSError of Path.mkdir: the data directory cannot be created.
MkdirError == [type |-> "OSError", msg |-> "Permission denied"]

\* isinstance(e, sqlite3.Error)
IsSqliteError(e) == e.type \in {"sqlite3.OperationalError", "sqlite3.IntegrityError"}

\* str(e) of an exception: its message.
StrOfError(e) == e.msg

\* str(v) of the value insert_appointment returns on success.
StrOfValue(v) == IF v.type = "int" THEN ToString(v.v) ELSE "<row>"

(* ------------------------------ schema -------------------------------- *)

\* The columns of the appointments table, in the order SELECT * gives them.
Columns == <<"id", "created_at", "patient_name", "doctor_name", "scheduled_at",
             "summary", "appointment_notes">>

ColumnType == [id |-> "int", created_at |-> "text", patient_name |-> "text",
               doctor_name |-> "text", scheduled_at |-> "text", summary |-> "text",
               appointment_notes |-> "text"]

\* datetime('now'): the engine's clock as zero-padded text of two digits.
DatetimeNow(c) == <<c \div 10, c % 10>>

\* The row an INSERT stores: id from the AUTOINCREMENT sequence, created_at
\* from the column default.
NewRow(sq, c, patient_name, doctor_name, scheduled_at, summary, appointment_notes) ==
    [id |-> sq + 1, created_at |-> DatetimeNow(c), patient_name |-> patient_name,
     doctor_name |-> doctor_name, scheduled_at |-> scheduled_at, summary |-> summary,
     appointment_notes |-> appointment_notes]

\* row[i] of a fetched row, a tuple in column order (i counts from 0).
Subscript(row, i) ==
    LET col == Columns[i + 1]
    IN  IF ColumnType[col] = "int" THEN PyInt(row[col]) ELSE PyStr(row[col])

(* --------------------------- SQL predicates --------------------------- *)

\* a > b on TEXT: bytewise, a proper prefix is the smaller one.
RECURSIVE TextGreater(_, _)
TextGreater(a, b) ==
    IF a = <<>> THEN FALSE
    ELSE IF b = <<>> THEN TRUE
    ELSE IF Head(a) # Head(b) THEN Head(a) > Head(b)
    ELSE TextGreater(Tail(a), Tail(b))

\* WHERE scheduled_at = ? AND doctor_name = ?
ConflictMatches(row, scheduled_at, doctor_name) ==
    row.scheduled_at = scheduled_at /\ row.doctor_name = doctor_name

\* Mutant of PatientMatches: the comparison made with COLLATE NOCASE.
PatientMatchesNoCase(row, patient_name) ==
    LET Lower(n) == IF n = "John Doe" THEN "john doe" ELSE n
    IN  Lower(row.patient_name) = Lower(patient_name)

\* WHERE patient_name = ?
PatientMatches(row, patient_name) == row.patient_name = patient_name

\* Mutant of FutureMatches: >= in place of >.
FutureMatchesNotBefore(row, c, future_only) ==
    future_only => ~TextGreater(DatetimeNow(c), row.scheduled_at)

\* AND scheduled_at > datetime('now'), present when future_only is set.
FutureMatches(row, c, future_only) ==
    future_only => TextGreater(row.scheduled_at, DatetimeNow(c))

\* SELECT COUNT(*) FROM appointments WHERE scheduled_at = ? AND doctor_name = ?
CountConflicts(tbl, scheduled_at, doctor_name) ==
    Len(SelectSeq(tbl, LAMBDA r : ConflictMatches(r, scheduled_at, doctor_name)))

\* Mutant of SchemaAllows: the table declares UNIQUE (doctor_name, scheduled_at).
SchemaAllowsUniquePair(tbl, row) ==
    \A i \in 1..Len(tbl) :
        /\ tbl[i].id # row.id
        /\ ~(tbl[i].doctor_name = row.doctor_name /\ tbl[i].scheduled_at = row.scheduled_at)

\* The INSERT is refused by no constraint of the schema: the table declares
\* a primary key on id and nothing on (doctor_name, scheduled_at).
SchemaAllows(tbl, row) == \A i \in 1..Len(tbl) : tbl[i].id # row.id

\* Mutant of CreateTableIfNotExists: the script drops the table first.
DropAndCreateTable(tbl) == <<>>

\* CREATE TABLE IF NOT EXISTS appointments: an existing table keeps its rows.
CreateTableIfNotExists(tbl) == tbl

(* ------------------------- connections used --------------------------- *)

\* sqlite3.connect(database_path) succeeded.
Connect(events) == Append(events, "open")

\* Mutant of CloseInFinally: the connection is left open.
CloseSkipped(events) == events

\* finally: conn.close()
CloseInFinally(events) == Append(events, "close")

(* --------------------------- store: db.py ----------------------------- *)

\* What one call did: how it ended, what it returned or raised, the
\* connections it opened and closed, and the table and sequence it left.
Returned(value, error, events, tbl, sq) ==
    [outcome |-> "return", value |-> value, error |-> error, exc |-> PyNone,
     events |-> events, tbl |-> tbl, sq |-> sq]

Raised(exc, events, tbl, sq) ==
    [outcome |-> "raise", value |-> PyNone, error |-> PyNone, exc |-> exc,
     events |-> events, tbl |-> tbl, sq |-> sq]

init_db(tbl, sq, fault) ==
    IF fault = "mkdir"
    THEN Raised(MkdirError, <<>>, tbl, sq)
    ELSE IF fault = "connect"
    THEN Raised(EngineError("connect"), <<>>, tbl, sq)
    ELSE IF fault = "script"
    THEN Raised(EngineError("script"), CloseInFinally(Connect(<<>>)), tbl, sq)
    ELSE Returned(PyNone, PyNone, CloseInFinally(Connect(<<>>)),
                  CreateTableIfNotExists(tbl), sq)

\* Mutant of check_for_conflicting_appointments: count > 1 in place of count > 0.
check_conflicts_above_one(tbl, sq, scheduled_at, doctor_name, fault) ==
    IF fault = "connect"
    THEN Raised(EngineError("connect"), <<>>, tbl, sq)
    ELSE IF fault = "query"
    THEN Raised(EngineError("query"), CloseInFinally(Connect(<<>>)), tbl, sq)
    ELSE Returned(PyBool(CountConflicts(tbl, scheduled_at, doctor_name) > 1), PyNone,
                  CloseInFinally(Connect(<<>>)), tbl, sq)

check_for_conflicting_appointments(tbl, sq, scheduled_at, doctor_name, fault) ==
    IF fault = "connect"
    THEN Raised(EngineError("connect"), <<>>, tbl, sq)
    ELSE IF fault = "query"
    THEN Raised(EngineError("query"), CloseInFinally(Connect(<<>>)), tbl, sq)
    ELSE Returned(PyBool(CountConflicts(tbl, scheduled_at, doctor_name) > 0), PyNone,
                  CloseInFinally(Connect(<<>>)), tbl, sq)

\* The fault the pre-check meets, given the fault the insert call meets.
CheckFaultOf(fault) ==
    CASE fault = "check_connect" -> "connect"
      [] fault = "check_query"   -> "query"
      [] OTHER                   -> "none"

\* a: the arguments patient_name, doctor_name, scheduled_at, summary and
\* appointment_notes.
insert_appointment(tbl, sq, c, a, fault) ==
    IF fault = "connect"
    THEN \* the connect of the first line is outside the try: the exception
         \* leaves the function
         Raised(EngineError("connect"), <<>>, tbl, sq)
    ELSE
    LET conn == Connect(<<>>)
        chk  == check_for_conflicting_appointments(tbl, sq, a.scheduled_at, a.doctor_name,
                                                   CheckFaultOf(fault))
        \* the pre-check's connection opens and closes while conn is open
        used == conn \o chk.events
        row  == NewRow(sq, c, a.patient_name, a.doctor_name, a.scheduled_at, a.summary,
                       a.appointment_notes)
    IN  IF chk.outcome = "raise"
        THEN \* except sqlite3.Error as e: return (None, e)
             Returned(PyNone, chk.exc, CloseInFinally(used), tbl, sq)
        ELSE IF chk.value.v
        THEN Returned(PyNone, ConflictError, CloseInFinally(used), tbl, sq)
        ELSE IF fault = "insert"
        THEN Returned(PyNone, EngineError("insert"), CloseInFinally(used), tbl, sq)
        ELSE IF ~SchemaAllows(tbl, row)
        THEN Returned(PyNone, IntegrityError, CloseInFinally(used), tbl, sq)
        ELSE IF fault = "commit"
        THEN \* closed without a commit: the INSERT is rolled back
             Returned(PyNone, EngineError("commit"), CloseInFinally(used), tbl, sq)
        ELSE \* return (row[0], None)
             Returned(Subscript(row, 0), PyNone, CloseInFinally(used),
                      Append(tbl, row), row.id)

select_appointments(tbl, sq, fault) ==
    IF fault = "connect"
    THEN Raised(EngineError("connect"), <<>>, tbl, sq)
    ELSE IF fault = "query"
    THEN Raised(EngineError("query"), CloseInFinally(Connect(<<>>)), tbl, sq)
    ELSE Returned(PyList(tbl), PyNone, CloseInFinally(Connect(<<>>)), tbl, sq)

select_appointments_by_patient(tbl, sq, c, patient_name, future_only, fault) ==
    IF fault = "connect"
    THEN Raised(EngineError("connect"), <<>>, tbl, sq)
    ELSE IF fault = "query"
    THEN Raised(EngineError("query"), CloseInFinally(Connect(<<>>)), tbl, sq)
    ELSE Returned(PyList(SelectSeq(tbl, LAMBDA r : /\ PatientMatches(r, patient_name)
                                                   /\ FutureMatches(r, c, future_only))),
                  PyNone, CloseInFinally(Connect(<<>>)), tbl, sq)

(* --------------------------- tools: agent.py -------------------------- *)

\* `if error:` on the second component of insert_appointment's result.
Truthy(v) == v # PyNone

\* What a tool call gave back to the framework.
ToolReturned(value) == [outcome |-> "return", value |-> value, exc |-> PyNone]

ToolRaised(exc) == [outcome |-> "raise", value |-> PyNone, exc |-> exc]

\* Mutant of add_appointment: a storage error is answered with an apology.
add_appointment_apology(r) ==
    IF r.outcome = "raise"
    THEN ToolRaised(r.exc)
    ELSE IF Truthy(r.error) /\ IsSqliteError(r.error)
    THEN ToolReturned(FString(<<"Sorry, something went wrong. ", "Please try again later.">>))
    ELSE IF Truthy(r.error)
    THEN ToolReturned(FString(<<"Error inserting appointment: ", StrOfError(r.error)>>))
    ELSE ToolReturned(FString(<<"Appointment added successfully. Created: ",
                                StrOfValue(r.value)>>))

\* Assistant.add_appointment, given what insert_appointment did.
add_appointment(r) ==
    IF r.outcome = "raise"
    THEN ToolRaised(r.exc)
    ELSE IF Truthy(r.error)
    THEN ToolReturned(FString(<<"Error inserting appointment: ", StrOfError(r.error)>>))
    ELSE ToolReturned(FString(<<"Appointment added successfully. Created: ",
                                StrOfValue(r.value)>>))

\* Assistant.get_appointments_for_patient, given what
\* select_appointments_by_patient did.
get_appointments_for_patient(r) ==
    IF r.outcome = "raise" THEN ToolRaised(r.exc) ELSE ToolReturned(r.value)

\* No tool was called: a store function was called directly.
NoTool == [outcome |-> "none", value |-> PyNone, exc |-> PyNone]

(* ------------------------------ state --------------------------------- *)

VARIABLES
    rows,       \* the appointments table, in rowid order (committed rows)
    seq,        \* the AUTOINCREMENT sequence: the largest id ever committed
    clock,      \* the storage engine's clock
    last,       \* the last call that ran alone to completion, and what it did
    pc,         \* per worker process: where its insert_appointment call stands
    req,        \* per worker process: the arguments of its call
    pending,    \* per worker process: the row of its INSERT, not yet committed
    writeLock,  \* the process holding the database's write lock, 0 if none
    result      \* per worker process: what its call returned

vars == <<rows, seq, clock, last, pc, req, pending, writeLock, result>>

dbVars == <<rows, seq>>

procVars == <<pc, req, pending, writeLock, result>>

\* The worker processes that serve calls at the same time.
Procs == {1, 2}

\* The arguments of a call of insert_appointment; the add_appointment tool
\* passes no appointment_notes, so the default "" is stored.
Args == {[patient_name |-> p, doctor_name |-> sl[1], scheduled_at |-> sl[2],
          summary |-> s, appointment_notes |-> ""] :
            p \in PatientNames, sl \in Slots, s \in Summaries}

NoArgs == [none |-> TRUE]

NoRow == [none |-> TRUE]

NoResult == [outcome |-> "none"]

\* The record kept of a call: the function, its arguments, the fault it met,
\* the table and the engine's clock it was called on, what the store function
\* did and what the tool (if any) gave back.
Call(op, a, fault, r, tool) ==
    [op |-> op, args |-> a, fault |-> fault, before |-> rows, at |-> clock,
     store |-> [outcome |-> r.outcome, value |-> r.value, error |-> r.error, exc |-> r.exc],
     tool |-> tool, events |-> r.events]

\* After prewarm has run init_db() on a fresh database file.
Init ==
    /\ rows = <<>>
    /\ seq = 0
    /\ clock = 0
    /\ last = [op |-> "prewarm", args |-> NoArgs, fault |-> "none",
               before |-> <<>>, at |-> 0,
               store |-> [outcome |-> "return", value |-> PyNone, error |-> PyNone,
                          exc |-> PyNone],
               tool |-> NoTool, events |-> <<"open", "close">>]
    /\ pc = [p \in Procs |-> "idle"]
    /\ req = [p \in Procs |-> NoArgs]
    /\ pending = [p \in Procs |-> NoRow]
    /\ writeLock = 0
    /\ result = [p \in Procs |-> NoResult]

(* ------------------- calls that run one at a time --------------------- *)

\* Time passes on the engine's clock.
Tick ==
    /\ clock < MaxClock
    /\ clock' = clock + 1
    /\ UNCHANGED <<rows, seq, last, procVars>>

\* The effect of a call that ran alone: the table and the sequence it left.
Apply(op, a, fault, r, tool) ==
    /\ Len(r.tbl) <= MaxRows
    /\ rows' = r.tbl
    /\ seq' = r.sq
    /\ last' = Call(op, a, fault, r, tool)
    /\ UNCHANGED <<clock, procVars>>

InitDb ==
    \E fault \in InitFaults :
        Apply("init_db", NoArgs, fault, init_db(rows, seq, fault), NoTool)

CheckForConflictingAppointments ==
    \E t \in ScheduledAts, d \in DoctorNames, fault \in CheckFaults :
        Apply("check_for_conflicting_appointments",
              [scheduled_at |-> t, doctor_name |-> d], fault,
              check_for_conflicting_appointments(rows, seq, t, d, fault), NoTool)

SelectAppointments ==
    \E fault \in SelectFaults :
        Apply("select_appointments", NoArgs, fault,
              select_appointments(rows, seq, fault), NoTool)

SelectAppointmentsByPatient ==
    \E p \in PatientNames, future_only \in BOOLEAN, fault \in SelectFaults :
        Apply("select_appointments_by_patient",
              [patient_name |-> p, future_only |-> future_only], fault,
              select_appointments_by_patient(rows, seq, clock, p, future_only, fault),
              NoTool)

\* The add_appointment tool: insert_appointment with the default notes.
AddAppointment ==
    \E a \in Args, fault \in InsertFaults :
        LET r == insert_appointment(rows, seq, clock, a, fault)
        IN  Apply("add_appointment", a, fault, r, add_appointment(r))

\* The get_appointments_for_patient tool: future_only is left at its default.
GetAppointmentsForPatient ==
    \E p \in PatientNames, fault \in SelectFaults :
        LET r == select_appointments_by_patient(rows, seq, clock, p, FALSE, fault)
        IN  Apply("get_appointments_for_patient",
                  [patient_name |-> p, future_only |-> FALSE], fault, r,
                  get_appointments_for_patient(r))

Next ==
    \/ Tick
    \/ InitDb
    \/ CheckForConflictingAppointments
    \/ SelectAppointments
    \/ SelectAppointmentsByPatient
    \/ AddAppointment
    \/ GetAppointmentsForPatient

Spec == Init /\ [][Next]_vars

(* --------------- insert_appointment calls that overlap ---------------- *)

\* The calls in flight: each may still add a row.
InFlight == {q \in Procs : pc[q] \in {"check", "insert", "commit"}}

\* A worker process takes a call and opens its connection (the first line
\* of insert_appointment).
CCall(p) ==
    /\ pc[p] \in {"idle", "done"}
    /\ Len(rows) + Cardinality(InFlight) < MaxRows
    /\ \E a \in Args : req' = [req EXCEPT ![p] = a]
    /\ pc' = [pc EXCEPT ![p] = "check"]
    /\ result' = [result EXCEPT ![p] = NoResult]
    /\ UNCHANGED <<rows, seq, clock, last, pending, writeLock>>

\* The pre-check: one SELECT COUNT(*) on a connection of its own, which sees
\* the committed rows and reserves nothing.
CCheck(p) ==
    /\ pc[p] = "check"
    /\ LET chk == check_for_conflicting_appointments(rows, seq, req[p].scheduled_at,
                                                     req[p].doctor_name, "none")
       IN  IF chk.value.v
           THEN /\ pc' = [pc EXCEPT ![p] = "done"]
                /\ result' = [result EXCEPT ![p] =
                                 [outcome |-> "return", value |-> PyNone,
                                  error |-> ConflictError]]
           ELSE /\ pc' = [pc EXCEPT ![p] = "insert"]
                /\ UNCHANGED result
    /\ UNCHANGED <<rows, seq, clock, last, req, pending, writeLock>>

\* conn.execute("INSERT ... RETURNING *") and fetchone(): the statement
\* takes the write lock and holds its row until the commit.  While another
\* process holds the lock the statement fails once the busy timeout is over.
CInsert(p) ==
    /\ pc[p] = "insert"
    /\ LET row == NewRow(seq, clock, req[p].patient_name, req[p].doctor_name,
                         req[p].scheduled_at, req[p].summary, req[p].appointment_notes)
       IN  IF writeLock # 0
           THEN /\ pc' = [pc EXCEPT ![p] = "done"]
                /\ result' = [result EXCEPT ![p] =
                                 [outcome |-> "return", value |-> PyNone,
                                  error |-> EngineError("insert")]]
                /\ UNCHANGED <<pending, writeLock>>
           ELSE IF ~SchemaAllows(rows, row)
           THEN /\ pc' = [pc EXCEPT ![p] = "done"]
                /\ result' = [result EXCEPT ![p] =
                                 [outcome |-> "return", value |-> PyNone,
                                  error |-> IntegrityError]]
                /\ UNCHANGED <<pending, writeLock>>
           ELSE /\ pc' = [pc EXCEPT ![p] = "commit"]
                /\ pending' = [pending EXCEPT ![p] = row]
                /\ writeLock' = p
                /\ UNCHANGED result
    /\ UNCHANGED <<rows, seq, clock, last, req>>

\* conn.commit(), return (row[0], None) and the close of the finally.
CCommit(p) ==
    /\ pc[p] = "commit"
    /\ rows' = Append(rows, pending[p])
    /\ seq' = pending[p].id
    /\ writeLock' = 0
    /\ pending' = [pending EXCEPT ![p] = NoRow]
    /\ pc' = [pc EXCEPT ![p] = "done"]
    /\ result' = [result EXCEPT ![p] =
                     [outcome |-> "return", value |-> Subscript(pending[p], 0),
                      error |-> PyNone]]
    /\ UNCHANGED <<clock, last, req>>

NextConc ==
    \/ \E p \in Procs : CCall(p)
    \/ \E p \in Procs : CCheck(p)
    \/ \E p \in Procs : CInsert(p)
    \/ \E p \in Procs : CCommit(p)

\* Two worker processes serve calls of insert_appointment at the same time.
SpecConc == Init /\ [][NextConc]_vars

(* ------------------------ measures for the claims --------------------- *)

\* The rows of a table booked for a doctor at a time.
PairCount(tbl, d, t) ==
    Cardinality({i \in 1..Len(tbl) : tbl[i].doctor_name = d /\ tbl[i].scheduled_at = t})

\* How often a row occurs in a sequence of rows.
Occurrences(s, row) == Cardinality({k \in 1..Len(s) : s[k] = row})

\* a is lexicographically greater than b: they agree on the first k places,
\* and then either b ends and a goes on, or a has the greater digit.
LexGreater(a, b) ==
    \E k \in 0..Len(b) :
        /\ k <= Len(a)
        /\ \A j \in 1..k : a[j] = b[j]
        /\ \/ k = Len(b) /\ Len(a) > k
           \/ k < Len(b) /\ k < Len(a) /\ a[k + 1] > b[k + 1]

\* The connections open after the first k events of a call.
RECURSIVE OpenAfter(_, _)
OpenAfter(events, k) ==
    IF k = 0 THEN 0
    ELSE OpenAfter(events, k - 1) + (IF events[k] = "open" THEN 1 ELSE -1)

\* The most connections a call held open at once.
PeakOpen(events) ==
    CHOOSE n \in 0..Len(events) :
        /\ \E k \in 0..Len(events) : OpenAfter(events, k) = n
        /\ \A k \in 0..Len(events) : OpenAfter(events, k) <= n

\* The last call ran insert_appointment (the add_appointment tool calls it
\* before anything else); last.store is what insert_appointment did.
InsertCalled == last.op = "add_appointment"

\* insert_appointment returned (appointment, None).
InsertSucceeded ==
    InsertCalled /\ last.store.outcome = "return" /\ last.store.error = PyNone

\* The pair of the last insert was booked already when it was called.
PairWasPresent ==
    InsertCalled /\ PairCount(last.before, last.args.doctor_name, last.args.scheduled_at) >= 1

\* The last call listed a patient's rows, directly or through the tool.
ListedByPatient ==
    last.op \in {"select_appointments_by_patient", "get_appointments_for_patient"}

(* ------------------------------ claims -------------------------------- *)

\* C1: when calls do not overlap and a row with the (doctor_name,
\* scheduled_at) pair is present, insert with that pair, for any patient,
\* creates no row, the pair keeps exactly one row, and the call fails with
\* the conflict error (with a storage error instead only when the engine
\* fails before the pre-check has answered).
C1_ConflictingInsertFails ==
    PairWasPresent =>
        /\ rows = last.before
        /\ PairCount(rows, last.args.doctor_name, last.args.scheduled_at) = 1
        /\ last.fault \notin {"connect", "check_connect", "check_query"} =>
              /\ last.store.outcome = "return"
              /\ last.store.value = PyNone
              /\ last.store.error = ConflictError

\* A second insert for a booked pair, by the other patient, was refused.
C1_Witness ==
    /\ PairWasPresent
    /\ last.fault = "none"
    /\ last.store.error = ConflictError
    /\ \E i \in 1..Len(rows) :
          /\ rows[i].doctor_name = last.args.doctor_name
          /\ rows[i].scheduled_at = last.args.scheduled_at
          /\ rows[i].patient_name # last.args.patient_name

\* C2: two overlapping inserts for one (doctor_name, scheduled_at) pair that
\* have both passed the pre-check are both stored, whatever the table holds
\* by then: no constraint of the schema refuses the second row, and the pair
\* ends with two rows.
C2_RaceDoubleBooks ==
    \A p \in Procs, q \in Procs :
        ( /\ p # q
          /\ pc[p] = "done" /\ pc[q] = "done"
          /\ req[p].doctor_name = req[q].doctor_name
          /\ req[p].scheduled_at = req[q].scheduled_at
          /\ result[p].error \notin {ConflictError, EngineError("insert")}
          /\ result[q].error \notin {ConflictError, EngineError("insert")} )
        => /\ result[p].error = PyNone
           /\ result[q].error = PyNone
           /\ PairCount(rows, req[p].doctor_name, req[p].scheduled_at) >= 2

\* Both calls returned a success and the table holds two rows for one
\* doctor at one time.
C2_Witness ==
    /\ \A p \in Procs : pc[p] = "done" /\ result[p].error = PyNone
    /\ \E i \in 1..Len(rows), j \in 1..Len(rows) :
          /\ i < j
          /\ rows[i].doctor_name = rows[j].doctor_name
          /\ rows[i].scheduled_at = rows[j].scheduled_at

\* C3: an insert for a pair that has no row succeeds, and its success value
\* is the full persisted record: id, created_at and the patient_name,
\* doctor_name, scheduled_at, summary and notes that were passed in.
C3_InsertReturnsRecord ==
    ( /\ InsertCalled
      /\ ~PairWasPresent
      /\ last.fault = "none" )
    => /\ InsertSucceeded
       /\ Len(rows) = Len(last.before) + 1
       /\ last.store.value = PyTuple(rows[Len(rows)])
       /\ rows[Len(rows)].patient_name = last.args.patient_name
       /\ rows[Len(rows)].doctor_name = last.args.doctor_name
       /\ rows[Len(rows)].scheduled_at = last.args.scheduled_at
       /\ rows[Len(rows)].summary = last.args.summary
       /\ rows[Len(rows)].appointment_notes = last.args.appointment_notes

\* C4: listing a patient's rows without future_only gives exactly the
\* stored rows whose patient_name equals the name: each of them once, no row
\* of another patient, and an empty list when none matches.
C4_ListByPatientExact ==
    ( /\ ListedByPatient
      /\ ~last.args.future_only
      /\ last.fault = "none" )
    => /\ last.store.outcome = "return"
       /\ last.store.value.type = "list"
       /\ \A i \in 1..Len(rows) :
             Occurrences(last.store.value.v, rows[i]) =
                 (IF rows[i].patient_name = last.args.patient_name THEN 1 ELSE 0)
       /\ \A k \in 1..Len(last.store.value.v) :
             \E i \in 1..Len(rows) : rows[i] = last.store.value.v[k]
       /\ (last.op = "get_appointments_for_patient" =>
              last.tool = ToolReturned(last.store.value))

\* The tool listed one patient's row out of a table that also holds a row
\* of the patient whose name differs in case only.
C4_Witness ==
    /\ last.op = "get_appointments_for_patient"
    /\ last.fault = "none"
    /\ Len(last.tool.value.v) = 1
    /\ Len(rows) = 2
    /\ \E i \in 1..Len(rows) : rows[i].patient_name # last.args.patient_name

\* C5: every call of insert returns a result in which exactly one of the
\* success value and the failure is present, with whatever fault it meets;
\* it never raises.
C5_InsertNeverRaises ==
    InsertCalled =>
        /\ last.store.outcome = "return"
        /\ (last.store.value = PyNone) # (last.store.error = PyNone)
        /\ (last.store.error # PyNone =>
               (last.store.error = ConflictError) # IsSqliteError(last.store.error))

\* C6 as the specification words it: after a storage error of insert, the
\* string the add_appointment tool returns holds no engine error text.
C6_NoEngineTextRelayed ==
    ( /\ InsertCalled
      /\ last.store.outcome = "return"
      /\ last.store.error # PyNone
      /\ IsSqliteError(last.store.error) )
    => /\ last.tool.outcome = "return"
       /\ \A k \in 1..Len(last.tool.value.parts) :
             last.tool.value.parts[k] # StrOfError(last.store.error)

\* C6: after any failure insert returns, a conflict or a storage error, the
\* add_appointment tool returns "Error inserting appointment: " followed by
\* the text of the error itself, the engine's text included.
C6_ErrorTextRelayed ==
    ( /\ InsertCalled
      /\ last.store.outcome = "return"
      /\ last.store.error # PyNone )
    => /\ last.tool.outcome = "return"
       /\ last.tool.value.type = "str"
       /\ Len(last.tool.value.parts) = 2
       /\ last.tool.value.parts[1] = "Error inserting appointment: "
       /\ last.tool.value.parts[2] = last.store.error.msg

\* The tool relayed the engine's text of a failed commit.
C6_Witness ==
    /\ InsertCalled
    /\ last.fault = "commit"
    /\ IsSqliteError(last.store.error)
    /\ last.tool.value.parts[2] = EngineText("commit")

\* C7: neither tool raises: whatever fault the store call meets, the tool
\* returns a string or a structure.
C7_ToolsNeverRaise ==
    last.op \in {"add_appointment", "get_appointments_for_patient"} =>
        last.tool.outcome = "return"

\* C8: the table is append-only: every step keeps each stored row in its
\* place with all its fields, and the only step that changes the table is a
\* successful insert, which adds exactly one row.
C8_AppendOnly ==
    [][ /\ \A i \in 1..Len(rows) : i <= Len(rows') /\ rows'[i] = rows[i]
        /\ rows' # rows =>
              /\ Len(rows') = Len(rows) + 1
              /\ last'.op = "add_appointment"
              /\ last'.store.outcome = "return"
              /\ last'.store.error = PyNone ]_vars

\* init_db ran again on a table that holds rows.
C8_Witness ==
    /\ last.op = "init_db"
    /\ last.fault = "none"
    /\ Len(last.before) >= 1
    /\ rows = last.before

\* C9: with future_only, listing a patient's rows gives exactly the
\* patient's rows whose scheduled_at is lexicographically greater than the
\* engine's time string at the call, each once.
C9_FutureOnlyExact ==
    ( /\ last.op = "select_appointments_by_patient"
      /\ last.args.future_only
      /\ last.fault = "none" )
    => /\ last.store.outcome = "return"
       /\ last.store.value.type = "list"
       /\ \A i \in 1..Len(rows) :
             Occurrences(last.store.value.v, rows[i]) =
                 (IF /\ rows[i].patient_name = last.args.patient_name
                     /\ LexGreater(rows[i].scheduled_at, DatetimeNow(last.at))
                  THEN 1 ELSE 0)
       /\ \A k \in 1..Len(last.store.value.v) :
             \E i \in 1..Len(rows) : rows[i] = last.store.value.v[k]

\* Of a patient's two rows, the later one was listed and the one that is
\* not later than the engine's time was left out.
C9_Witness ==
    /\ last.op = "select_appointments_by_patient"
    /\ last.args.future_only
    /\ last.fault = "none"
    /\ Len(last.store.value.v) = 1
    /\ \A i \in 1..Len(rows) : rows[i].patient_name = last.args.patient_name
    /\ Len(rows) = 2

\* C10 as the specification words it: no call holds more than one open
\* connection at any time, and none is open when it is over.
C10_OneConnection ==
    /\ PeakOpen(last.events) <= 1
    /\ OpenAfter(last.events, Len(last.events)) = 0

\* C10: every call has closed each connection it opened when it is over, on
\* every exit; a call holds one connection at a time, except an insert
\* whose pre-check connects, which holds two while the pre-check runs.
C10_ConnectionsReleased ==
    /\ OpenAfter(last.events, Len(last.events)) = 0
    /\ PeakOpen(last.events) <= 2
    /\ PeakOpen(last.events) = 2 <=>
          (InsertCalled /\ last.fault \notin {"connect", "check_connect"})

\* An insert that met a storage error in its pre-check query held two
\* connections and left none open.
C10_Witness ==
    /\ InsertCalled
    /\ last.fault = "check_query"
    /\ PeakOpen(last.events) = 2
    /\ OpenAfter(last.events, Len(last.events)) = 0

====
